---- MODULE Spec2Model ----
(***************************************************************************)
(* Reliable file transfer over UDP (cn_lab2): the packet checksum of       *)
(* common.h, the sender of client.cpp (main thread and the receive_acks    *)
(* thread, TCP Reno window) and the receiver of server.cpp, joined by two  *)
(* datagram channels.                                                      *)
(*                                                                         *)
(* A datagram set (c2s, s2c) holds every datagram handed to sendto().      *)
(* recvfrom() takes any member and leaves it there: a member never taken   *)
(* is a lost datagram, a member taken twice a duplicated one, and the      *)
(* order of taking is free, so loss, duplication and reordering are all    *)
(* behaviours of the same set.  A datagram may also arrive with one bit    *)
(* flipped (Arrivals).                                                     *)
(***************************************************************************)
EXTENDS Integers, Sequences, FiniteSets, TLC

(***************************************************************************)
(* Protocol constants (common.h).  MAX_BUFFER_SIZE (1500 in the source)    *)
(* and FLOW_CONTROL_WINDOW_SIZE (64 in the source) are scaled down; the    *)
(* derivation MAX_DATA_SIZE = MAX_BUFFER_SIZE - HEADER_SIZE is the         *)
(* source's.                                                               *)
(***************************************************************************)
HEADER_SIZE == 20

MAX_BUFFER_SIZE == 22

MAX_DATA_SIZE == MAX_BUFFER_SIZE - HEADER_SIZE

FLOW_CONTROL_WINDOW_SIZE == 3

SYN == 1

ACK == 2

FIN == 4

\* sizeof the fields of struct Packet before data[]: 4 + 4 + 2 + 2 + 2 + 2.
\* HEADER_SIZE is 20, so every checksummed and transmitted region runs
\* HEADER_SIZE - PacketFieldBytes = 4 bytes past data[data_len].
PacketFieldBytes == 16

TailLen == HEADER_SIZE - PacketFieldBytes

(***************************************************************************)
(* Bounds of the model.                                                    *)
(***************************************************************************)
\* largest input file, in bytes
MaxFileLen == 5

\* largest input file of the runs whose adjacent storage is not zero
DirtyFileLen == 3

\* the single input file of the sender-side runs (SpecSender), in bytes
LongFileLen == 9

\* duplicate ACKs counted before further ones are left in the channel
MaxDupAcks == 6

\* contents the 4 bytes of storage after a packet object may have
TailChoices == {<<0, 0, 0, 0>>, <<165, 90, 0, 255>>}

\* what a run finds after the packet objects of the sender: stack after the
\* local new_packet of main, node after PacketState::packet in the map (the
\* low bytes of send_time)
AdjacentChoices ==
    {[stack |-> <<0, 0, 0, 0>>, node |-> <<0, 0, 0, 0>>],
     [stack |-> <<165, 90, 0, 255>>, node |-> <<17, 0, 0, 0>>]}

\* highest bit of data_len inverted in the bit-flip runs
MaxLenBit == 2

\* length of the input in the runs over the fair lossy channel
LiveFileLen == 3

\* values of the bytes an earlier datagram left in the receiving object
StaleBytes == {0, 253, 255}

\* cwnd is an exact fraction; its numerator is kept below this so that
\* cwnd + 1/cwnd stays inside 32-bit integers
MaxCwndNum == 30000

(***************************************************************************)
(* Bit and byte helpers.                                                   *)
(***************************************************************************)
Min(a, b) == IF a < b THEN a ELSE b

Max(a, b) == IF a > b THEN a ELSE b

RECURSIVE Pow2(_)
Pow2(n) == IF n = 0 THEN 1 ELSE 2 * Pow2(n - 1)

BitSet(x, k) == (x \div Pow2(k)) % 2 = 1

\* x with bit k inverted
FlipBit(x, k) == IF BitSet(x, k) THEN x - Pow2(k) ELSE x + Pow2(k)

\* flags & f for a single-bit mask f
HasFlag(flags, f) == (flags \div f) % 2 = 1

Zeros(n) == [i \in 1..n |-> 0]

(***************************************************************************)
(* struct Packet.  data holds the data_len payload bytes, tail the 4 bytes *)
(* that follow them in memory (the rest of data[], or the storage after    *)
(* the object when data_len > MAX_DATA_SIZE - 4).                          *)
(***************************************************************************)
Packet(seq, ack, flags, dlen, data, tail) ==
    [seq_num |-> seq, ack_num |-> ack, flags |-> flags, window_size |-> 0,
     data_len |-> dlen, checksum |-> 0, data |-> data, tail |-> tail]

\* the eight 16-bit words of the fields before data[], as the loop over
\* reinterpret_cast<const uint16_t*>(packet) reads them (little-endian)
FieldWords(p) ==
    <<p.seq_num % 65536, p.seq_num \div 65536, p.ack_num % 65536,
      p.ack_num \div 65536, p.flags, p.window_size, p.data_len, p.checksum>>

\* while (size > 1) { sum += *p++; size -= 2; }  if (size > 0) sum += byte,
\* over the bytes b from index i on
RECURSIVE SumWords(_, _, _)
SumWords(b, i, size) ==
    IF size > 1 THEN b[i] + 256 * b[i + 1] + SumWords(b, i + 2, size - 2)
    ELSE IF size > 0 THEN b[i]
    ELSE 0

\* while (sum >> 16) sum = (sum & 0xFFFF) + (sum >> 16)
RECURSIVE FoldSum(_)
FoldSum(sum) ==
    IF sum \div 65536 # 0 THEN FoldSum((sum % 65536) + (sum \div 65536)) ELSE sum

\* the sum over size = HEADER_SIZE + data_len bytes from the start of the
\* object, folded and complemented: the 16 bytes of the fields, then
\* size - 16 bytes from data[0] on
ChecksumOver(p) ==
    LET w == FieldWords(p)
        fields == w[1] + w[2] + w[3] + w[4] + w[5] + w[6] + w[7] + w[8]
    IN  65535 - FoldSum(fields + SumWords(p.data \o p.tail, 1,
                             HEADER_SIZE + p.data_len - PacketFieldBytes))

\* mutant: the checksum field is not zeroed before summing
calculate_checksum_nozero(p) ==
    [ret |-> ChecksumOver(p), packet |-> p]

\* calculate_checksum: ret is the returned value, packet the object after
\* the call (the function writes through const_cast and restores)
calculate_checksum(p) ==
    LET original_checksum == p.checksum
        zeroed == [p EXCEPT !.checksum = 0]
    IN  [ret |-> ChecksumOver(zeroed),
         packet |-> [zeroed EXCEPT !.checksum = original_checksum]]

verify_checksum(p) == calculate_checksum(p).ret = p.checksum

\* p.checksum = calculate_checksum(&p)
Sealed(p) == [p EXCEPT !.checksum = calculate_checksum(p).ret]


(***************************************************************************)
(* cwnd is a double in the source; here it is the exact fraction <<n, d>>  *)
(* in lowest terms.                                                        *)
(***************************************************************************)
RECURSIVE Gcd(_, _)
Gcd(a, b) == IF b = 0 THEN a ELSE Gcd(b, a % b)

Rat(n, d) == <<n \div Gcd(n, d), d \div Gcd(n, d)>>

RatInt(k) == <<k, 1>>

RatAdd(x, y) == Rat(x[1] * y[2] + y[1] * x[2], x[2] * y[2])

RatInv(x) == <<x[2], x[1]>>

\* k < x, k >= x for an integer k
IntLess(k, x) == k * x[2] < x[1]

RatGeqInt(x, k) == x[1] >= k * x[2]

Floor(x) == x[1] \div x[2]

Ceil(x) == (x[1] + x[2] - 1) \div x[2]

(***************************************************************************)
(* TCP Reno controller: the globals cwnd, ssthresh, state and              *)
(* duplicate_ack_count of client.cpp.                                      *)
(***************************************************************************)
SLOW_START == "SLOW_START"

CONGESTION_AVOIDANCE == "CONGESTION_AVOIDANCE"

FAST_RECOVERY == "FAST_RECOVERY"

\* mutant: the threshold is halved without the floor of 2
HalfCwnd_nofloor(cw) == cw[1] \div (2 * cw[2])

\* ssthresh = (std::max)(2.0, cwnd / 2.0), truncated to uint32_t
HalfCwnd(cw) == Max(2, cw[1] \div (2 * cw[2]))

\* receive_acks, acked_num >= send_base: the window adjustment
RenoNewAck(r) ==
    IF r.state = FAST_RECOVERY
    THEN [r EXCEPT !.state = CONGESTION_AVOIDANCE, !.cwnd = RatInt(r.ssthresh),
                   !.dup = 0]
    ELSE IF r.state = SLOW_START
    THEN LET c == RatAdd(r.cwnd, RatInt(1))
         IN  [r EXCEPT !.cwnd = c, !.dup = 0,
                       !.state = IF RatGeqInt(c, r.ssthresh)
                                 THEN CONGESTION_AVOIDANCE ELSE SLOW_START]
    ELSE [r EXCEPT !.cwnd = RatAdd(r.cwnd, RatInv(r.cwnd)), !.dup = 0]

\* mutant: every third duplicate ACK sets the signal, fast recovery or not
RenoDupAck_retrigger(r, base, retx) ==
    LET n == r.dup + 1
    IN  IF r.state = FAST_RECOVERY
        THEN [reno |-> [r EXCEPT !.dup = n, !.cwnd = RatAdd(r.cwnd, RatInt(1))],
              retx |-> IF n % 3 = 0 THEN base ELSE retx]
        ELSE IF n = 3
        THEN LET th == HalfCwnd(r.cwnd)
             IN  [reno |-> [r EXCEPT !.dup = n, !.state = FAST_RECOVERY,
                                     !.ssthresh = th, !.cwnd = RatInt(th + 3)],
                  retx |-> base]
        ELSE [reno |-> [r EXCEPT !.dup = n], retx |-> retx]

\* mutant: fast recovery is entered on the second duplicate ACK
RenoDupAck_early(r, base, retx) ==
    LET n == r.dup + 1
    IN  IF r.state = FAST_RECOVERY
        THEN [reno |-> [r EXCEPT !.dup = n, !.cwnd = RatAdd(r.cwnd, RatInt(1))],
              retx |-> retx]
        ELSE IF n = 2
        THEN LET th == HalfCwnd(r.cwnd)
             IN  [reno |-> [r EXCEPT !.dup = n, !.state = FAST_RECOVERY,
                                     !.ssthresh = th, !.cwnd = RatInt(th + 3)],
                  retx |-> base]
        ELSE [reno |-> [r EXCEPT !.dup = n], retx |-> retx]

\* receive_acks, acked_num < send_base; retx is the value retransmit_seq_num
\* has afterwards
RenoDupAck(r, base, retx) ==
    LET n == r.dup + 1
    IN  IF r.state = FAST_RECOVERY
        THEN [reno |-> [r EXCEPT !.dup = n, !.cwnd = RatAdd(r.cwnd, RatInt(1))],
              retx |-> retx]
        ELSE IF n = 3
        THEN LET th == HalfCwnd(r.cwnd)
             IN  [reno |-> [r EXCEPT !.dup = n, !.state = FAST_RECOVERY,
                                     !.ssthresh = th, !.cwnd = RatInt(th + 3)],
                  retx |-> base]
        ELSE [reno |-> [r EXCEPT !.dup = n], retx |-> retx]

\* mutant: a timeout leaves duplicate_ack_count as it is
RenoTimeout_keepdup(r) ==
    [r EXCEPT !.state = SLOW_START, !.ssthresh = HalfCwnd(r.cwnd),
              !.cwnd = RatInt(1)]

\* main loop, timeout branch: one timed-out entry
RenoTimeout(r) ==
    [r EXCEPT !.state = SLOW_START, !.ssthresh = HalfCwnd(r.cwnd),
              !.cwnd = RatInt(1), !.dup = 0]

\* the for loop over the window applies it once per timed-out entry
RECURSIVE RenoTimeouts(_, _)
RenoTimeouts(r, k) == IF k = 0 THEN r ELSE RenoTimeouts(RenoTimeout(r), k - 1)

(***************************************************************************)
(* Send window (std::map<uint32_t, PacketState>): a function from the      *)
(* sequence numbers held to their packets.  send_time is not kept: an      *)
(* entry may be found timed out at any scan.                               *)
(***************************************************************************)
EmptyMap == [s \in {} |-> 0]

\* mutant: the entry of the acknowledged packet itself stays
EraseAcked_strict(w, acked_num) ==
    [s \in {k \in DOMAIN w : k >= acked_num} |-> w[s]]

\* the erase loop of receive_acks: every key <= acked_num goes
EraseAcked(w, acked_num) ==
    [s \in {k \in DOMAIN w : k > acked_num} |-> w[s]]

MapPut(w, k, v) == [s \in DOMAIN w \cup {k} |-> IF s = k THEN v ELSE w[s]]

\* mutant: the congestion window is not consulted
CanAdmit_flowonly(size, cw) == size < FLOW_CONTROL_WINDOW_SIZE

\* send_window.size() < (std::min)((double)FLOW_CONTROL_WINDOW_SIZE, cwnd)
CanAdmit(size, cw) == size < FLOW_CONTROL_WINDOW_SIZE /\ IntLess(size, cw)

\* the TailLen bytes after data[len - 1] of a zero-initialised object whose
\* first len data bytes were written: the rest of data[], which is zero,
\* then the storage mem after the object
TailAfter(len, mem) ==
    [i \in 1..TailLen |-> IF len + i <= MAX_DATA_SIZE THEN 0
                          ELSE mem[len + i - MAX_DATA_SIZE]]

\* a new data packet: Packet new_packet = {0}; seq_num, data_len, memcpy,
\* checksum
DataPacket(seq, bytes, mem) ==
    Sealed(Packet(seq, 0, 0, Len(bytes), bytes, TailAfter(Len(bytes), mem)))

\* a control packet: send_packet = {0}; flags, seq_num, ack_num, checksum.
\* data_len is 0 and the 4 bytes summed after the fields are data[0..3] of
\* the zero-initialised object (MAX_DATA_SIZE is 1480 in the source).
ControlPacket(seq, ack, flags) ==
    Sealed(Packet(seq, ack, flags, 0, <<>>, Zeros(TailLen)))

\* mutant: one packet a pass, cut after a single byte of the input
Admit_bytewise(w, next, sent, file, cw, mem) ==
    IF CanAdmit(Cardinality(DOMAIN w), cw) /\ sent < Len(file)
    THEN [window |-> MapPut(w, next, DataPacket(next,
                              SubSeq(file, sent + 1, sent + 1), mem)),
          next_seq_num |-> next + 1, bytes_sent_total |-> sent + 1]
    ELSE [window |-> w, next_seq_num |-> next, bytes_sent_total |-> sent]

\* the admission loop of the main step
RECURSIVE Admit(_, _, _, _, _, _)
Admit(w, next, sent, file, cw, mem) ==
    IF CanAdmit(Cardinality(DOMAIN w), cw) /\ sent < Len(file)
    THEN LET data_to_send == Min(MAX_DATA_SIZE, Len(file) - sent)
             new_packet == DataPacket(next, SubSeq(file, sent + 1,
                                                   sent + data_to_send), mem)
         IN  Admit(MapPut(w, next, new_packet), next + 1, sent + data_to_send,
                   file, cw, mem)
    ELSE [window |-> w, next_seq_num |-> next, bytes_sent_total |-> sent]

(***************************************************************************)
(* Receiver (server.cpp).                                                  *)
(***************************************************************************)
\* output_file.write(p.data, p.data_len)
Payload(p) == SubSeq(p.data \o p.tail, 1, p.data_len)

\* mutant: a buffered packet is written but not erased
Drain_noerase(expected, buf, out) ==
    IF expected \in DOMAIN buf
    THEN [expected |-> expected + 1, buffer |-> buf,
          file |-> out \o Payload(buf[expected])]
    ELSE [expected |-> expected, buffer |-> buf, file |-> out]

\* while (receive_buffer.count(expected_seq_num)) { write; erase; ++ }
RECURSIVE Drain(_, _, _)
Drain(expected, buf, out) ==
    IF expected \in DOMAIN buf
    THEN Drain(expected + 1,
               [s \in DOMAIN buf \ {expected} |-> buf[s]],
               out \o Payload(buf[expected]))
    ELSE [expected |-> expected, buffer |-> buf, file |-> out]

\* mutant: an old duplicate is written again
Deliver_rewrite(p, expected, buf, out) ==
    IF p.seq_num <= expected
    THEN Drain(Max(expected, p.seq_num + 1), buf, out \o Payload(p))
    ELSE [expected |-> expected, buffer |-> MapPut(buf, p.seq_num, p),
          file |-> out]

\* the three cases of the receive loop for a verified packet without FIN
Deliver(p, expected, buf, out) ==
    IF p.seq_num = expected
    THEN Drain(expected + 1, buf, out \o Payload(p))
    ELSE IF p.seq_num > expected
    THEN [expected |-> expected, buffer |-> MapPut(buf, p.seq_num, p),
          file |-> out]
    ELSE [expected |-> expected, buffer |-> buf, file |-> out]

\* mutant: the ACK names the next expected packet
AckNumFor_next(expected) == expected

\* send_packet.ack_num = expected_seq_num - 1
AckNumFor(expected) == expected - 1

(***************************************************************************)
(* Channel.  What recvfrom may hand over for a datagram d in flight: d     *)
(* itself, or d with one bit flipped on the way.  The receiving object is  *)
(* taken to hold the datagram as it arrived, the bytes past data[]         *)
(* included (recvfrom is given MAX_BUFFER_SIZE, 4 more than sizeof Packet).*)
(***************************************************************************)
Corruptions(d) ==
    {[d EXCEPT !.flags = FlipBit(@, 2)]}
      \cup (IF Len(d.data) > 0
            THEN {[d EXCEPT !.data[1] = FlipBit(@, 0)]} ELSE {})

Arrivals(chan) == chan \cup UNION {Corruptions(d) : d \in chan}


(***************************************************************************)
(* State.                                                                  *)
(***************************************************************************)
VARIABLES
    mpc,                    \* client main thread: where it is
    apc,                    \* client receive_acks thread: where it is
    rpc,                    \* server: where it is
    file_buffer,            \* client: the input file
    adjacent,               \* the bytes found after the sender's packet objects
    bytes_sent_total, next_seq_num, send_base, send_window,
    transmission_complete, retransmit_seq_num,
    cwnd, ssthresh, state, duplicate_ack_count,
    expected_seq_num, receive_buffer, output_file,
    r_last,                 \* server: what its last step found
    r_out,                  \* server: the datagrams its last step sent
    c2s, s2c,               \* datagrams in flight, client to server and back
    ck_pc, ck_packet, ck_orig, ck_after, ck_ok,  \* checksum harness
    rx_stale,               \* harness: the receiving object before recvfrom
    rx_flip,                \* harness: the bit inverted in transit
    window_mutex,           \* client: who holds window_mutex
    fast_retransmit_target, \* client main: local of the loop body
    acked_num               \* client receive_acks: local of the ACK branch

clientVars == <<mpc, apc, file_buffer, adjacent, bytes_sent_total, next_seq_num,
                send_base, send_window, transmission_complete,
                retransmit_seq_num, cwnd, ssthresh, state, duplicate_ack_count>>

serverVars == <<rpc, expected_seq_num, receive_buffer, output_file, r_last, r_out>>

ckVars == <<ck_pc, ck_packet, ck_orig, ck_after, ck_ok, rx_stale, rx_flip>>

\* the mutex and the two locals that live across the statements under it;
\* an action that models a whole critical section finds the mutex free and
\* leaves it free
lockVars == <<window_mutex, fast_retransmit_target, acked_num>>

vars == <<clientVars, serverVars, c2s, s2c, ckVars, lockVars>>

Reno == [cwnd |-> cwnd, ssthresh |-> ssthresh, state |-> state,
         dup |-> duplicate_ack_count]

SetReno(r) ==
    /\ cwnd' = r.cwnd
    /\ ssthresh' = r.ssthresh
    /\ state' = r.state
    /\ duplicate_ack_count' = r.dup

\* the input files tried: byte i of the file is i, so that any loss,
\* repetition or exchange of bytes shows in the output
Files == {[i \in 1..n |-> i] : n \in 0..MaxFileLen}

\* no bit inverted
NoFlip == [field |-> "none", idx |-> 0, bit |-> 0]

CkIdle ==
    /\ ck_pc = "off"
    /\ ck_packet = Packet(0, 0, 0, 0, <<>>, Zeros(TailLen))
    /\ ck_orig = ck_packet
    /\ ck_after = ck_packet
    /\ ck_ok = FALSE
    /\ rx_stale = <<>>
    /\ rx_flip = NoFlip

\* the globals of client.cpp and the locals of both main() as initialised
SysInit(files, mems) ==
    /\ mpc = "send_syn"
    /\ apc = "not_started"
    /\ rpc = "recv_syn"
    /\ file_buffer \in files
    /\ adjacent \in mems
    /\ bytes_sent_total = 0
    /\ next_seq_num = 1
    /\ send_base = 1
    /\ send_window = EmptyMap
    /\ transmission_complete = FALSE
    /\ retransmit_seq_num = 0
    /\ cwnd = RatInt(1)
    /\ ssthresh = 16
    /\ state = SLOW_START
    /\ duplicate_ack_count = 0
    /\ expected_seq_num = 1
    /\ receive_buffer = EmptyMap
    /\ output_file = <<>>
    /\ r_last = "none"
    /\ r_out = <<>>
    /\ c2s = {}
    /\ s2c = {}
    /\ window_mutex = "free"
    /\ fast_retransmit_target = 0
    /\ acked_num = 0

Init ==
    /\ SysInit(Files, AdjacentChoices)
    /\ adjacent.stack # Zeros(TailLen) => Len(file_buffer) <= DirtyFileLen
    /\ CkIdle

(***************************************************************************)
(* Client main thread (client.cpp main).                                   *)
(***************************************************************************)
\* step 1 of the handshake: SYN with seq_num 0
Client_SendSyn ==
    /\ mpc = "send_syn"
    /\ c2s' = c2s \cup {ControlPacket(0, 0, SYN)}
    /\ mpc' = "recv_synack"
    /\ UNCHANGED <<apc, file_buffer, adjacent, bytes_sent_total, next_seq_num,
                   send_base, send_window, transmission_complete,
                   retransmit_seq_num, cwnd, ssthresh, state,
                   duplicate_ack_count, serverVars, s2c, ckVars, lockVars>>

\* step 2 and 3: the blocking recvfrom returns m; the final ACK is sent only
\* if m.flags == (SYN | ACK); either way the file is read and the ACK thread
\* started.  The checksum of m is not looked at.
Client_RecvSynAck(m) ==
    /\ mpc = "recv_synack"
    /\ c2s' = IF m.flags = SYN + ACK
              THEN c2s \cup {ControlPacket(0, m.seq_num + 1, ACK)}
              ELSE c2s
    /\ mpc' = "loop_cond"
    /\ apc' = "cond"
    /\ UNCHANGED <<file_buffer, adjacent, bytes_sent_total, next_seq_num,
                   send_base, send_window, transmission_complete,
                   retransmit_seq_num, cwnd, ssthresh, state,
                   duplicate_ack_count, serverVars, s2c, ckVars, lockVars>>

\* while (bytes_sent_total < file_buffer.size() || !send_window.empty())
Client_LoopCond ==
    /\ mpc = "loop_cond"
    /\ mpc' = IF bytes_sent_total < Len(file_buffer) \/ DOMAIN send_window # {}
              THEN "step" ELSE "set_complete"
    /\ UNCHANGED <<apc, file_buffer, adjacent, bytes_sent_total, next_seq_num,
                   send_base, send_window, transmission_complete,
                   retransmit_seq_num, cwnd, ssthresh, state,
                   duplicate_ack_count, serverVars, c2s, s2c, ckVars, lockVars>>

\* the datagrams a retransmission of the entries in keys hands to sendto:
\* ps.packet.checksum = calculate_checksum(&ps.packet), then HEADER_SIZE +
\* data_len bytes from ps.packet on, mem being what follows it in the node
Resent(w, keys, mem) ==
    {Sealed([w[s] EXCEPT !.tail = TailAfter(w[s].data_len, mem)]) : s \in keys}

\* mutant: the timeout scan also runs in a pass that fast-retransmits
Client_Step_bothscans(timed_out) ==
    /\ mpc = "step"
    /\ LET target == retransmit_seq_num
           fast == target > 0 /\ target \in DOMAIN send_window
           keys == IF fast THEN {target} \cup timed_out
                   ELSE timed_out
           reno == RenoTimeouts(Reno, Cardinality(timed_out))
           adm == Admit(send_window, next_seq_num, bytes_sent_total,
                        file_buffer, reno.cwnd, adjacent.stack)
       IN  /\ retransmit_seq_num' = 0
           /\ SetReno(reno)
           /\ send_window' = adm.window
           /\ next_seq_num' = adm.next_seq_num
           /\ bytes_sent_total' = adm.bytes_sent_total
           /\ c2s' = c2s \cup Resent(send_window, keys, adjacent.node)
                         \cup {adm.window[s] : s \in DOMAIN adm.window
                                                      \ DOMAIN send_window}
    /\ mpc' = "loop_cond"
    /\ UNCHANGED <<apc, file_buffer, adjacent, send_base,
                   transmission_complete, serverVars, s2c, ckVars, lockVars>>

\* One pass of the loop body under window_mutex.  timed_out is the set of
\* entries the scan finds older than PACKET_TIMEOUT_MS.
Client_Step(timed_out) ==
    /\ mpc = "step"
    /\ LET target == retransmit_seq_num
           fast == target > 0 /\ target \in DOMAIN send_window
           keys == IF fast THEN {target} ELSE timed_out
           reno == IF fast THEN Reno
                   ELSE RenoTimeouts(Reno, Cardinality(timed_out))
           adm == Admit(send_window, next_seq_num, bytes_sent_total,
                        file_buffer, reno.cwnd, adjacent.stack)
       IN  /\ fast => timed_out = {}
           /\ retransmit_seq_num' = 0
           /\ SetReno(reno)
           /\ send_window' = adm.window
           /\ next_seq_num' = adm.next_seq_num
           /\ bytes_sent_total' = adm.bytes_sent_total
           /\ c2s' = c2s \cup Resent(send_window, keys, adjacent.node)
                         \cup {adm.window[s] : s \in DOMAIN adm.window
                                                      \ DOMAIN send_window}
    /\ mpc' = "loop_cond"
    /\ UNCHANGED <<apc, file_buffer, adjacent, send_base,
                   transmission_complete, serverVars, s2c, ckVars, lockVars>>

Client_SetComplete ==
    /\ mpc = "set_complete"
    /\ transmission_complete' = TRUE
    /\ mpc' = "send_fin"
    /\ UNCHANGED <<apc, file_buffer, adjacent, bytes_sent_total, next_seq_num,
                   send_base, send_window, retransmit_seq_num, cwnd, ssthresh,
                   state, duplicate_ack_count, serverVars, c2s, s2c, ckVars, lockVars>>

\* FIN with seq_num = next_seq_num
Client_SendFin ==
    /\ mpc = "send_fin"
    /\ c2s' = c2s \cup {ControlPacket(next_seq_num, 0, FIN)}
    /\ mpc' = "join"
    /\ UNCHANGED <<apc, file_buffer, adjacent, bytes_sent_total, next_seq_num,
                   send_base, send_window, transmission_complete,
                   retransmit_seq_num, cwnd, ssthresh, state,
                   duplicate_ack_count, serverVars, s2c, ckVars, lockVars>>

\* ack_thread.join()
Client_Join ==
    /\ mpc = "join"
    /\ apc = "done"
    /\ mpc' = "done"
    /\ UNCHANGED <<apc, file_buffer, adjacent, bytes_sent_total, next_seq_num,
                   send_base, send_window, transmission_complete,
                   retransmit_seq_num, cwnd, ssthresh, state,
                   duplicate_ack_count, serverVars, c2s, s2c, ckVars, lockVars>>

(***************************************************************************)
(* Client ACK thread (receive_acks).                                       *)
(***************************************************************************)
\* mutant: the loop of receive_acks does not look at transmission_complete
Ack_Cond_blind ==
    /\ apc = "cond"
    /\ apc' = "recv"
    /\ UNCHANGED <<mpc, file_buffer, adjacent, bytes_sent_total, next_seq_num,
                   send_base, send_window, transmission_complete,
                   retransmit_seq_num, cwnd, ssthresh, state,
                   duplicate_ack_count, serverVars, c2s, s2c, ckVars, lockVars>>

\* while (!transmission_complete || !send_window.empty())
Ack_Cond ==
    /\ apc = "cond"
    /\ apc' = IF ~transmission_complete \/ DOMAIN send_window # {}
              THEN "recv" ELSE "done"
    /\ UNCHANGED <<mpc, file_buffer, adjacent, bytes_sent_total, next_seq_num,
                   send_base, send_window, transmission_complete,
                   retransmit_seq_num, cwnd, ssthresh, state,
                   duplicate_ack_count, serverVars, c2s, s2c, ckVars, lockVars>>

\* verify_checksum(&ack_packet) && ack_packet.flags & ACK
AckAccepted(m) == verify_checksum(m) /\ HasFlag(m.flags, ACK)

\* recvfrom returns a datagram that fails the test: it is dropped without
\* taking the mutex
Ack_Ignore ==
    /\ apc = "recv"
    /\ {m \in Arrivals(s2c) : ~AckAccepted(m)} # {}
    /\ apc' = "cond"
    /\ UNCHANGED <<mpc, file_buffer, adjacent, bytes_sent_total, next_seq_num,
                   send_base, send_window, transmission_complete,
                   retransmit_seq_num, cwnd, ssthresh, state,
                   duplicate_ack_count, serverVars, c2s, s2c, ckVars, lockVars>>

\* acked_num >= send_base
Ack_New(m) ==
    /\ apc = "recv"
    /\ AckAccepted(m)
    /\ m.ack_num >= send_base
    /\ state = CONGESTION_AVOIDANCE => cwnd[1] <= MaxCwndNum
    /\ send_base' = m.ack_num + 1
    /\ send_window' = EraseAcked(send_window, m.ack_num)
    /\ SetReno(RenoNewAck(Reno))
    /\ apc' = "cond"
    /\ UNCHANGED <<mpc, file_buffer, adjacent, bytes_sent_total, next_seq_num,
                   transmission_complete, retransmit_seq_num, serverVars,
                   c2s, s2c, ckVars, lockVars>>

\* acked_num < send_base
Ack_Dup(m) ==
    /\ apc = "recv"
    /\ AckAccepted(m)
    /\ m.ack_num < send_base
    /\ duplicate_ack_count < MaxDupAcks
    /\ LET r == RenoDupAck(Reno, send_base, retransmit_seq_num)
       IN  /\ SetReno(r.reno)
           /\ retransmit_seq_num' = r.retx
    /\ apc' = "cond"
    /\ UNCHANGED <<mpc, file_buffer, adjacent, bytes_sent_total, next_seq_num,
                   send_base, send_window, transmission_complete, serverVars,
                   c2s, s2c, ckVars, lockVars>>

(***************************************************************************)
(* Server (server.cpp main).                                               *)
(***************************************************************************)
\* first recvfrom of the handshake: a datagram with SYN is answered with
\* SYN|ACK, anything else leads straight to the receive loop
Server_RecvSyn(m) ==
    /\ rpc = "recv_syn"
    /\ IF HasFlag(m.flags, SYN)
       THEN /\ r_out' = <<ControlPacket(0, m.seq_num + 1, SYN + ACK)>>
            /\ rpc' = "recv_ack"
       ELSE /\ r_out' = <<>>
            /\ rpc' = "loop"
    /\ s2c' = s2c \cup {r_out'[i] : i \in 1..Len(r_out')}
    /\ r_last' = "handshake"
    /\ UNCHANGED <<clientVars, expected_seq_num, receive_buffer, output_file,
                   c2s, ckVars, lockVars>>

\* second recvfrom of the handshake: whatever arrives is consumed
Server_RecvAck(m) ==
    /\ rpc = "recv_ack"
    /\ rpc' = "loop"
    /\ r_last' = "handshake"
    /\ r_out' = <<>>
    /\ UNCHANGED <<clientVars, expected_seq_num, receive_buffer, output_file,
                   c2s, s2c, ckVars, lockVars>>

\* receive loop, step 1: recvfrom returns a datagram that fails
\* verify_checksum; it is dropped (continue)
Server_Corrupt ==
    /\ rpc = "loop"
    /\ {m \in Arrivals(c2s) : ~verify_checksum(m)} # {}
    /\ r_last' = "corrupt"
    /\ r_out' = <<>>
    /\ UNCHANGED <<clientVars, rpc, expected_seq_num, receive_buffer,
                   output_file, c2s, s2c, ckVars, lockVars>>

\* mutant: the FIN flag is looked at before the checksum
Server_Fin_unverified(m) ==
    /\ rpc = "loop"
    /\ HasFlag(m.flags, FIN)
    /\ r_out' = <<ControlPacket(0, m.seq_num + 1, ACK + FIN)>>
    /\ s2c' = s2c \cup {r_out'[1]}
    /\ rpc' = "closed"
    /\ r_last' = "fin"
    /\ UNCHANGED <<clientVars, expected_seq_num, receive_buffer, output_file,
                   c2s, ckVars, lockVars>>

\* receive loop, step 2: FIN is answered with ACK|FIN and the loop left
Server_Fin(m) ==
    /\ rpc = "loop"
    /\ verify_checksum(m)
    /\ HasFlag(m.flags, FIN)
    /\ r_out' = <<ControlPacket(0, m.seq_num + 1, ACK + FIN)>>
    /\ s2c' = s2c \cup {r_out'[1]}
    /\ rpc' = "closed"
    /\ r_last' = "fin"
    /\ UNCHANGED <<clientVars, expected_seq_num, receive_buffer, output_file,
                   c2s, ckVars, lockVars>>

\* receive loop, steps 3 and 4: delivery, then the cumulative ACK
Server_Data(m) ==
    /\ rpc = "loop"
    /\ verify_checksum(m)
    /\ ~HasFlag(m.flags, FIN)
    /\ LET d == Deliver(m, expected_seq_num, receive_buffer, output_file)
       IN  /\ expected_seq_num' = d.expected
           /\ receive_buffer' = d.buffer
           /\ output_file' = d.file
    /\ r_out' = <<ControlPacket(0, AckNumFor(expected_seq_num'), ACK)>>
    /\ s2c' = s2c \cup {r_out'[1]}
    /\ r_last' = IF m.seq_num = expected_seq_num THEN "in_order"
                 ELSE IF m.seq_num > expected_seq_num THEN "future" ELSE "old"
    /\ UNCHANGED <<clientVars, rpc, c2s, ckVars, lockVars>>

\* recvfrom hands over any arrival of the socket's channel
Next ==
    \/ Client_SendSyn
    \/ mpc = "recv_synack" /\ \E m \in Arrivals(s2c) : Client_RecvSynAck(m)
    \/ Client_LoopCond
    \/ \E timed_out \in SUBSET DOMAIN send_window : Client_Step(timed_out)
    \/ Client_SetComplete
    \/ Client_SendFin
    \/ Client_Join
    \/ Ack_Cond
    \/ Ack_Ignore
    \/ apc = "recv" /\ \E m \in Arrivals(s2c) : Ack_New(m)
    \/ apc = "recv" /\ \E m \in Arrivals(s2c) : Ack_Dup(m)
    \/ rpc = "recv_syn" /\ \E m \in Arrivals(c2s) : Server_RecvSyn(m)
    \/ rpc = "recv_ack" /\ \E m \in Arrivals(c2s) : Server_RecvAck(m)
    \/ Server_Corrupt
    \/ rpc = "loop" /\ \E m \in Arrivals(c2s) : Server_Fin(m)
    \/ rpc = "loop" /\ \E m \in Arrivals(c2s) : Server_Data(m)

Spec == Init /\ [][Next]_vars

\* The same system over a channel that loses, duplicates and reorders
\* datagrams but delivers them bit for bit.
NextClean ==
    \/ Client_SendSyn
    \/ mpc = "recv_synack" /\ \E m \in s2c : Client_RecvSynAck(m)
    \/ Client_LoopCond
    \/ \E timed_out \in SUBSET DOMAIN send_window : Client_Step(timed_out)
    \/ Client_SetComplete
    \/ Client_SendFin
    \/ Client_Join
    \/ Ack_Cond
    \/ apc = "recv" /\ \E m \in s2c : Ack_New(m)
    \/ apc = "recv" /\ \E m \in s2c : Ack_Dup(m)
    \/ rpc = "recv_syn" /\ \E m \in c2s : Server_RecvSyn(m)
    \/ rpc = "recv_ack" /\ \E m \in c2s : Server_RecvAck(m)
    \/ rpc = "loop" /\ \E m \in c2s : Server_Fin(m)
    \/ rpc = "loop" /\ \E m \in c2s : Server_Data(m)

SpecClean == Init /\ [][NextClean]_vars

\* The sender followed through a longer file: one input of LongFileLen
\* bytes over the bit-exact channel.
InitSender ==
    /\ SysInit({[i \in 1..LongFileLen |-> i]},
               {[stack |-> Zeros(TailLen), node |-> Zeros(TailLen)]})
    /\ CkIdle

SpecSender == InitSender /\ [][NextClean]_vars

(***************************************************************************)
(* A zero-byte input over a channel that delivers: the recvfrom calls of   *)
(* the handshake return the handshake datagrams in the order sent, and     *)
(* from then on every datagram in flight reaches its recipient, possibly   *)
(* more than once and in any order.  The threads and the server run        *)
(* whenever they can.                                                      *)
(***************************************************************************)
InitZero ==
    /\ SysInit({<<>>}, AdjacentChoices)
    /\ CkIdle

ZeroMain ==
    \/ Client_SendSyn
    \/ mpc = "recv_synack"
         /\ \E m \in s2c : m.flags = SYN + ACK /\ Client_RecvSynAck(m)
    \/ Client_LoopCond
    \/ Client_SetComplete
    \/ Client_SendFin
    \/ Client_Join

ZeroAck ==
    \/ Ack_Cond
    \/ apc = "recv" /\ \E m \in s2c : Ack_New(m)
    \/ apc = "recv" /\ \E m \in s2c : Ack_Dup(m)

ZeroHandshake ==
    \/ rpc = "recv_syn" /\ \E m \in c2s : m.flags = SYN /\ Server_RecvSyn(m)
    \/ rpc = "recv_ack" /\ \E m \in c2s : m.flags = ACK /\ Server_RecvAck(m)

ZeroFin == rpc = "loop" /\ \E m \in c2s : Server_Fin(m)

ZeroData == rpc = "loop" /\ \E m \in c2s : Server_Data(m)

NextZero == ZeroMain \/ ZeroAck \/ ZeroHandshake \/ ZeroFin \/ ZeroData

SpecZero ==
    /\ InitZero /\ [][NextZero]_vars
    /\ WF_vars(ZeroMain) /\ WF_vars(ZeroAck)
    /\ WF_vars(ZeroHandshake) /\ WF_vars(ZeroFin)


(***************************************************************************)
(* A lossy but fair channel under real time.  Both threads and the server  *)
(* run whenever they can; an entry that stays in the send window is found  *)
(* older than PACKET_TIMEOUT_MS again and again, so the data packets are   *)
(* sent as often as needed, and so are the ACKs that answer them: their    *)
(* delivery is fair.  SYN, SYN|ACK, the final ACK, FIN and ACK|FIN are     *)
(* each handed to sendto once, and a datagram sent once may be lost: their *)
(* delivery has no fairness.                                               *)
(***************************************************************************)
InitLive ==
    /\ SysInit({[i \in 1..LiveFileLen |-> i]},
               {[stack |-> Zeros(TailLen), node |-> Zeros(TailLen)]})
    /\ CkIdle

LiveMain ==
    \/ Client_SendSyn
    \/ Client_LoopCond
    \/ \E timed_out \in SUBSET DOMAIN send_window : Client_Step(timed_out)
    \/ Client_SetComplete
    \/ Client_SendFin
    \/ Client_Join

\* every entry of the window has waited longer than PACKET_TIMEOUT_MS
LiveTimeout == DOMAIN send_window # {} /\ Client_Step(DOMAIN send_window)

\* the ACK for the receiver's current expected_seq_num reaches receive_acks
LiveAckDelivery ==
    apc = "recv" /\ \E m \in s2c :
        /\ m.flags = ACK
        /\ m.ack_num = AckNumFor(expected_seq_num)
        /\ (Ack_New(m) \/ Ack_Dup(m))

\* the data packet the receiver waits for reaches it
LiveDataDelivery ==
    rpc = "loop" /\ \E m \in c2s :
        m.flags = 0 /\ m.seq_num = expected_seq_num /\ Server_Data(m)

SpecLive ==
    /\ InitLive /\ [][NextClean]_vars
    /\ WF_vars(LiveMain) /\ SF_vars(LiveTimeout)
    /\ WF_vars(Ack_Cond) /\ SF_vars(LiveAckDelivery)
    /\ SF_vars(LiveDataDelivery)

\* The same system when only the threads are fair: the main thread and the
\* loop test of receive_acks run whenever they can, and the channel may
\* stop delivering at any moment.
SpecJoin ==
    /\ InitLive /\ [][NextClean]_vars
    /\ WF_vars(LiveMain) /\ WF_vars(Ack_Cond)

(***************************************************************************)
(* The two client threads statement by statement, with window_mutex.  The  *)
(* body of the main loop takes the mutex (unique_lock), reads and clears   *)
(* the signal, retransmits, admits, gives the mutex up inside              *)
(* retransmit_cv.wait_for and takes it again before the lock object ends.  *)
(* receive_acks takes it (lock_guard) after the test of the datagram and   *)
(* applies the ACK in separate statements.  Both loop conditions read      *)
(* send_window without the mutex.                                          *)
(***************************************************************************)
MutexFileLen == 3

InitMutex ==
    /\ SysInit({[i \in 1..MutexFileLen |-> i]},
               {[stack |-> Zeros(TailLen), node |-> Zeros(TailLen)]})
    /\ CkIdle

\* what no statement of the loop bodies touches
SenderFrame ==
    UNCHANGED <<file_buffer, adjacent, transmission_complete, serverVars,
                s2c, ckVars>>

\* mutant: the body of the main loop runs without taking the mutex
Main_Lock_absent ==
    /\ mpc = "step"
    /\ mpc' = "drain"
    /\ SenderFrame
    /\ UNCHANGED <<apc, bytes_sent_total, next_seq_num, send_base, send_window,
                   retransmit_seq_num, cwnd, ssthresh, state,
                   duplicate_ack_count, c2s, lockVars>>

\* std::unique_lock<std::mutex> lock(window_mutex)
Main_Lock ==
    /\ mpc = "step"
    /\ window_mutex = "free"
    /\ window_mutex' = "main"
    /\ mpc' = "drain"
    /\ SenderFrame
    /\ UNCHANGED <<apc, bytes_sent_total, next_seq_num, send_base, send_window,
                   retransmit_seq_num, cwnd, ssthresh, state,
                   duplicate_ack_count, c2s, fast_retransmit_target, acked_num>>

\* fast_retransmit_target = retransmit_seq_num; retransmit_seq_num = 0
Main_Drain ==
    /\ mpc = "drain"
    /\ fast_retransmit_target' = retransmit_seq_num
    /\ retransmit_seq_num' = 0
    /\ mpc' = "scan"
    /\ SenderFrame
    /\ UNCHANGED <<apc, bytes_sent_total, next_seq_num, send_base, send_window,
                   cwnd, ssthresh, state, duplicate_ack_count, c2s,
                   window_mutex, acked_num>>

\* the fast retransmission, or else the timeout scan
Main_Retransmit(timed_out) ==
    /\ mpc = "scan"
    /\ LET fast == fast_retransmit_target > 0
                     /\ fast_retransmit_target \in DOMAIN send_window
           keys == IF fast THEN {fast_retransmit_target} ELSE timed_out
       IN  /\ fast => timed_out = {}
           /\ SetReno(IF fast THEN Reno
                      ELSE RenoTimeouts(Reno, Cardinality(timed_out)))
           /\ c2s' = c2s \cup Resent(send_window, keys, adjacent.node)
    /\ mpc' = "admit"
    /\ SenderFrame
    /\ UNCHANGED <<apc, bytes_sent_total, next_seq_num, send_base, send_window,
                   retransmit_seq_num, lockVars>>

\* the admission loop
Main_Admit ==
    /\ mpc = "admit"
    /\ LET adm == Admit(send_window, next_seq_num, bytes_sent_total,
                        file_buffer, cwnd, adjacent.stack)
       IN  /\ send_window' = adm.window
           /\ next_seq_num' = adm.next_seq_num
           /\ bytes_sent_total' = adm.bytes_sent_total
           /\ c2s' = c2s \cup {adm.window[s] : s \in DOMAIN adm.window
                                                      \ DOMAIN send_window}
    /\ mpc' = "wait"
    /\ SenderFrame
    /\ UNCHANGED <<apc, send_base, retransmit_seq_num, cwnd, ssthresh, state,
                   duplicate_ack_count, lockVars>>

\* retransmit_cv.wait_for(lock, 10ms): the mutex is given up for the wait
Main_Wait ==
    /\ mpc = "wait"
    /\ window_mutex' = "free"
    /\ mpc' = "wake"
    /\ SenderFrame
    /\ UNCHANGED <<apc, bytes_sent_total, next_seq_num, send_base, send_window,
                   retransmit_seq_num, cwnd, ssthresh, state,
                   duplicate_ack_count, c2s, fast_retransmit_target, acked_num>>

\* wait_for returns with the mutex taken again
Main_Wake ==
    /\ mpc = "wake"
    /\ window_mutex = "free"
    /\ window_mutex' = "main"
    /\ mpc' = "unlock"
    /\ SenderFrame
    /\ UNCHANGED <<apc, bytes_sent_total, next_seq_num, send_base, send_window,
                   retransmit_seq_num, cwnd, ssthresh, state,
                   duplicate_ack_count, c2s, fast_retransmit_target, acked_num>>

\* end of the loop body: the lock object goes out of scope
Main_Unlock ==
    /\ mpc = "unlock"
    /\ window_mutex' = "free"
    /\ fast_retransmit_target' = 0
    /\ mpc' = "loop_cond"
    /\ SenderFrame
    /\ UNCHANGED <<apc, bytes_sent_total, next_seq_num, send_base, send_window,
                   retransmit_seq_num, cwnd, ssthresh, state,
                   duplicate_ack_count, c2s, acked_num>>

\* recvfrom and the test of the datagram, outside the mutex
AckT_Recv(m) ==
    /\ apc = "recv"
    /\ (AckAccepted(m) /\ m.ack_num < send_base) =>
         duplicate_ack_count < MaxDupAcks
    /\ state = CONGESTION_AVOIDANCE => cwnd[1] <= MaxCwndNum
    /\ IF AckAccepted(m)
       THEN apc' = "lock" /\ acked_num' = m.ack_num
       ELSE apc' = "cond" /\ acked_num' = acked_num
    /\ SenderFrame
    /\ UNCHANGED <<mpc, bytes_sent_total, next_seq_num, send_base, send_window,
                   retransmit_seq_num, cwnd, ssthresh, state,
                   duplicate_ack_count, c2s, window_mutex,
                   fast_retransmit_target>>

\* std::lock_guard<std::mutex> lock(window_mutex)
AckT_Lock ==
    /\ apc = "lock"
    /\ window_mutex = "free"
    /\ window_mutex' = "ack"
    /\ apc' = "test"
    /\ SenderFrame
    /\ UNCHANGED <<mpc, bytes_sent_total, next_seq_num, send_base, send_window,
                   retransmit_seq_num, cwnd, ssthresh, state,
                   duplicate_ack_count, c2s, fast_retransmit_target, acked_num>>

\* acked_num >= send_base: duplicate_ack_count = 0; send_base = acked_num + 1
AckT_Base ==
    /\ apc = "test"
    /\ acked_num >= send_base
    /\ duplicate_ack_count' = 0
    /\ send_base' = acked_num + 1
    /\ apc' = "erase"
    /\ SenderFrame
    /\ UNCHANGED <<mpc, bytes_sent_total, next_seq_num, send_window,
                   retransmit_seq_num, cwnd, ssthresh, state, c2s, lockVars>>

\* the erase loop
AckT_Erase ==
    /\ apc = "erase"
    /\ send_window' = EraseAcked(send_window, acked_num)
    /\ apc' = "reno"
    /\ SenderFrame
    /\ UNCHANGED <<mpc, bytes_sent_total, next_seq_num, send_base,
                   retransmit_seq_num, cwnd, ssthresh, state,
                   duplicate_ack_count, c2s, lockVars>>

\* the window adjustment of a new ACK
AckT_Reno ==
    /\ apc = "reno"
    /\ SetReno(RenoNewAck(Reno))
    /\ apc' = "unlock"
    /\ SenderFrame
    /\ UNCHANGED <<mpc, bytes_sent_total, next_seq_num, send_base, send_window,
                   retransmit_seq_num, c2s, lockVars>>

\* acked_num < send_base: the duplicate-ACK branch
AckT_Dup ==
    /\ apc = "test"
    /\ acked_num < send_base
    /\ LET r == RenoDupAck(Reno, send_base, retransmit_seq_num)
       IN  /\ SetReno(r.reno)
           /\ retransmit_seq_num' = r.retx
    /\ apc' = "unlock"
    /\ SenderFrame
    /\ UNCHANGED <<mpc, bytes_sent_total, next_seq_num, send_base, send_window,
                   c2s, lockVars>>

\* end of the block: the lock_guard goes out of scope
AckT_Unlock ==
    /\ apc = "unlock"
    /\ window_mutex' = "free"
    /\ acked_num' = 0
    /\ apc' = "cond"
    /\ SenderFrame
    /\ UNCHANGED <<mpc, bytes_sent_total, next_seq_num, send_base, send_window,
                   retransmit_seq_num, cwnd, ssthresh, state,
                   duplicate_ack_count, c2s, fast_retransmit_target>>

NextMutex ==
    \/ Client_SendSyn
    \/ mpc = "recv_synack" /\ \E m \in s2c : Client_RecvSynAck(m)
    \/ Client_LoopCond
    \/ Main_Lock
    \/ Main_Drain
    \/ \E timed_out \in SUBSET DOMAIN send_window : Main_Retransmit(timed_out)
    \/ Main_Admit
    \/ Main_Wait
    \/ Main_Wake
    \/ Main_Unlock
    \/ Client_SetComplete
    \/ Client_SendFin
    \/ Client_Join
    \/ Ack_Cond
    \/ apc = "recv" /\ \E m \in s2c : AckT_Recv(m)
    \/ AckT_Lock
    \/ AckT_Base
    \/ AckT_Erase
    \/ AckT_Reno
    \/ AckT_Dup
    \/ AckT_Unlock
    \/ rpc = "recv_syn" /\ \E m \in c2s : Server_RecvSyn(m)
    \/ rpc = "recv_ack" /\ \E m \in c2s : Server_RecvAck(m)
    \/ rpc = "loop" /\ \E m \in c2s : Server_Fin(m)
    \/ rpc = "loop" /\ \E m \in c2s : Server_Data(m)

SpecMutex == InitMutex /\ [][NextMutex]_vars

(***************************************************************************)
(* Checksum harness: p.checksum = calculate_checksum(&p) followed by       *)
(* verify_checksum(&p), for packets with fields at both ends of their      *)
(* range, every data_len, and any storage after the payload.               *)
(***************************************************************************)
CkPackets ==
    {[seq_num |-> s, ack_num |-> a, flags |-> f, window_size |-> w,
      data_len |-> Len(d), checksum |-> c, data |-> d, tail |-> t] :
        s \in {0, 65535, 70000}, a \in {0, 65536}, f \in {0, SYN + ACK + FIN},
        w \in {0, 65535}, c \in {0, 43981},
        d \in UNION {[1..n -> {0, 255}] : n \in 0..MAX_DATA_SIZE},
        t \in TailChoices}

CkInit ==
    /\ SysInit({<<>>}, {[stack |-> Zeros(TailLen), node |-> Zeros(TailLen)]})
    /\ ck_pc = "start"
    /\ ck_packet \in CkPackets
    /\ ck_orig = ck_packet
    /\ ck_after = ck_packet
    /\ ck_ok = FALSE
    /\ rx_stale = <<>>
    /\ rx_flip = NoFlip

\* p.checksum = calculate_checksum(&p); ck_after is the object as the call
\* returns it, before the assignment
Ck_Seal ==
    /\ ck_pc = "start"
    /\ ck_after' = calculate_checksum(ck_packet).packet
    /\ ck_packet' = [ck_after' EXCEPT !.checksum = calculate_checksum(ck_packet).ret]
    /\ ck_pc' = "sealed"
    /\ UNCHANGED <<clientVars, serverVars, c2s, s2c, ck_orig, ck_ok, rx_stale,
                   rx_flip, lockVars>>

\* verify_checksum(&p)
Ck_Verify ==
    /\ ck_pc = "sealed"
    /\ ck_ok' = verify_checksum(ck_packet)
    /\ ck_after' = calculate_checksum(ck_packet).packet
    /\ ck_pc' = "verified"
    /\ UNCHANGED <<clientVars, serverVars, c2s, s2c, ck_orig, ck_packet,
                   rx_stale, rx_flip, lockVars>>

CkNext == Ck_Seal \/ Ck_Verify

SpecCk == CkInit /\ [][CkNext]_vars

(***************************************************************************)
(* Bit-flip harness: a sealed packet is sent, one bit of the datagram is   *)
(* inverted on the way, and the receiver's recvfrom stores it over the     *)
(* object it reuses for every datagram (recv_packet of server.cpp), whose  *)
(* bytes past the end of the datagram keep what they held.                 *)
(***************************************************************************)
\* the bits of a datagram outside its checksum field; data_len up to bit
\* MaxLenBit (a higher bit moves the summed region further still), the
\* 32-bit fields up to bit 30 (the values stay below 2^31)
Flips(p) ==
    {[field |-> "seq_num", idx |-> 0, bit |-> b] : b \in 0..30}
      \cup {[field |-> "ack_num", idx |-> 0, bit |-> b] : b \in 0..30}
      \cup {[field |-> "flags", idx |-> 0, bit |-> b] : b \in 0..15}
      \cup {[field |-> "window_size", idx |-> 0, bit |-> b] : b \in 0..15}
      \cup {[field |-> "data_len", idx |-> 0, bit |-> b] : b \in 0..MaxLenBit}
      \cup {[field |-> "bytes", idx |-> i, bit |-> b] :
               i \in 1..(p.data_len + TailLen), b \in 0..7}

\* the fields of p with the bit f inverted
FlipField(p, f) ==
    IF f.field = "seq_num" THEN [p EXCEPT !.seq_num = FlipBit(@, f.bit)]
    ELSE IF f.field = "ack_num" THEN [p EXCEPT !.ack_num = FlipBit(@, f.bit)]
    ELSE IF f.field = "flags" THEN [p EXCEPT !.flags = FlipBit(@, f.bit)]
    ELSE IF f.field = "window_size"
    THEN [p EXCEPT !.window_size = FlipBit(@, f.bit)]
    ELSE IF f.field = "data_len" THEN [p EXCEPT !.data_len = FlipBit(@, f.bit)]
    ELSE p

\* recvfrom(server_socket, (char*)&recv_packet, MAX_BUFFER_SIZE, ...): the
\* HEADER_SIZE + data_len bytes the sender handed to sendto land on the
\* object, stale being what data[] and the storage after it held before;
\* the result is the object as verify_checksum then reads it, data_len
\* bytes of payload and the TailLen bytes after them
Received(p, f, stale) ==
    LET sent == p.data \o p.tail
        wire == IF f.field = "bytes"
                THEN [sent EXCEPT ![f.idx] = FlipBit(@, f.bit)] ELSE sent
        mem == [i \in 1..Len(stale) |->
                  IF i <= Len(wire) THEN wire[i] ELSE stale[i]]
        q == FlipField(p, f)
    IN  [q EXCEPT !.data = SubSeq(mem, 1, q.data_len),
                  !.tail = SubSeq(mem, q.data_len + 1, q.data_len + TailLen)]

StaleLen == MAX_DATA_SIZE + Pow2(MaxLenBit) + TailLen

\* contents of the receiving object left by earlier datagrams: one 16-bit
\* word repeated
StaleChoices ==
    {[i \in 1..StaleLen |-> IF i % 2 = 1 THEN lo ELSE hi] :
        lo \in StaleBytes, hi \in StaleBytes}

FlipPackets ==
    {[seq_num |-> s, ack_num |-> 0, flags |-> f, window_size |-> 0,
      data_len |-> Len(d), checksum |-> 0, data |-> d, tail |-> t] :
        s \in {1, 70000}, f \in {0, FIN},
        d \in UNION {[1..n -> {0, 255}] : n \in 0..MAX_DATA_SIZE},
        t \in TailChoices}

FlipInit ==
    /\ SysInit({<<>>}, {[stack |-> Zeros(TailLen), node |-> Zeros(TailLen)]})
    /\ ck_pc = "start"
    /\ ck_packet \in FlipPackets
    /\ ck_orig = ck_packet
    /\ ck_after = ck_packet
    /\ ck_ok = FALSE
    /\ rx_stale \in StaleChoices
    /\ rx_flip = NoFlip

\* the datagram of ck_packet arrives with the bit f inverted and is verified
Ck_Receive(f) ==
    /\ ck_pc = "sealed"
    /\ ck_after' = Received(ck_packet, f, rx_stale)
    /\ ck_ok' = verify_checksum(ck_after')
    /\ rx_flip' = f
    /\ ck_pc' = "received"
    /\ UNCHANGED <<clientVars, serverVars, c2s, s2c, ck_orig, ck_packet,
                   rx_stale, lockVars>>

FlipNext ==
    \/ Ck_Seal
    \/ \E f \in Flips(ck_packet) \cup {NoFlip} : Ck_Receive(f)

SpecFlip == FlipInit /\ [][FlipNext]_vars

(***************************************************************************)
(* Properties.                                                             *)
(***************************************************************************)

\* C10: once p.checksum has been set to calculate_checksum(p),
\* verify_checksum(p) returns true; and each call of calculate_checksum
\* returns the object as it found it, checksum field included.
C10_SealedVerifies ==
    /\ ck_pc = "sealed" =>
         /\ ck_after = ck_orig
         /\ ck_packet = [ck_orig EXCEPT !.checksum = ck_packet.checksum]
    /\ ck_pc = "verified" =>
         /\ ck_ok
         /\ ck_after = ck_packet

\* a packet with an odd data_len, carries in the sum and a nonzero checksum
\* field beforehand has been sealed and verified
C10_Witness ==
    /\ ck_pc = "verified"
    /\ ck_orig.data_len % 2 = 1
    /\ ck_orig.checksum # 0
    /\ ck_orig.seq_num = 70000
    /\ ck_orig.window_size = 65535
    /\ ck_packet.checksum # ck_orig.checksum


(***************************************************************************)
(* Helpers of the properties below.                                        *)
(***************************************************************************)
\* the data packets the sender has handed to sendto with sequence number k
SentData(k) == {p \in c2s : p.seq_num = k /\ p.flags = 0 /\ p.data_len > 0}

\* payloads of the data packets 1..k, concatenated in increasing order
RECURSIVE PayloadsUpTo(_)
PayloadsUpTo(k) ==
    IF k = 0 THEN <<>>
    ELSE PayloadsUpTo(k - 1) \o (CHOOSE p \in SentData(k) : TRUE).data

IsPrefix(a, b) == Len(a) <= Len(b) /\ SubSeq(b, 1, Len(a)) = a

WindowSize == Cardinality(DOMAIN send_window)

\* a step of the server that processed a verified datagram without FIN
DataKinds == {"in_order", "future", "old"}

ServerDataStep == serverVars' # serverVars /\ r_last' \in DataKinds

\* one pass of the body of the client's main loop
MainStep == mpc = "step" /\ mpc' = "loop_cond"

\* C1: when the sender has sent FIN and terminated and the receiver has
\* processed FIN and left its loop, the output file equals the input file.
C1_TransferIntact ==
    (mpc = "done" /\ rpc = "closed") => output_file = file_buffer

C3_BufferAboveExpected ==
    \A k \in DOMAIN receive_buffer : k > expected_seq_num

\* a packet is buffered while an earlier one has been delivered
C3_Witness ==
    /\ DOMAIN receive_buffer = {3}
    /\ expected_seq_num = 2
    /\ output_file # <<>>

C6_BaseAtMostNext ==
    apc # "not_started" => send_base <= next_seq_num

\* C7: the keys of the send window are exactly the sequence numbers s with
\* send_base <= s < next_seq_num.
C7_WindowIsInFlight ==
    apc # "not_started" =>
      DOMAIN send_window = {s \in 1..next_seq_num : send_base <= s /\ s < next_seq_num}

\* C8 as claimed: after every pass of the main loop body the window holds
\* at most min(FLOW_CONTROL_WINDOW_SIZE, floor(cwnd)) entries.
C8_FloorCap ==
    [][MainStep =>
         WindowSize' <= Min(FLOW_CONTROL_WINDOW_SIZE, Floor(cwnd'))]_vars

\* C8 amended: a pass that admitted at least one packet leaves at most
\* min(FLOW_CONTROL_WINDOW_SIZE, ceil(cwnd)) entries (each packet is
\* admitted while size < min(FLOW_CONTROL_WINDOW_SIZE, cwnd)); a pass that
\* admitted none leaves the window's keys as they were; and the window
\* never holds more than FLOW_CONTROL_WINDOW_SIZE entries.
C8_AdmissionCap ==
    [][/\ (MainStep /\ next_seq_num' > next_seq_num) =>
            WindowSize' <= Min(FLOW_CONTROL_WINDOW_SIZE, Ceil(cwnd'))
       /\ (MainStep /\ next_seq_num' = next_seq_num) =>
            DOMAIN send_window' = DOMAIN send_window
       /\ WindowSize' <= FLOW_CONTROL_WINDOW_SIZE]_vars

\* packets were admitted up to ceil(cwnd) with cwnd = 5/2
C8_Witness ==
    /\ mpc = "loop_cond"
    /\ cwnd = <<5, 2>>
    /\ WindowSize = 3
    /\ DOMAIN send_window = {next_seq_num - 3, next_seq_num - 2, next_seq_num - 1}
    /\ send_base = next_seq_num - 3

\* C9: cwnd >= 1 and ssthresh >= 2.
C9_RenoFloors == RatGeqInt(cwnd, 1) /\ ssthresh >= 2

\* a timeout has struck with cwnd below 4 after data had been
\* acknowledged: both values sit on their floors
C9_Witness ==
    /\ state = SLOW_START
    /\ cwnd = RatInt(1)
    /\ ssthresh = 2
    /\ send_base > 1
    /\ DOMAIN send_window # {}

\* C11: a datagram that arrives with one bit outside its checksum field
\* inverted, a bit of data_len included, fails verify_checksum at the
\* receiver.
C11_FlipDetected ==
    (ck_pc = "received" /\ rx_flip # NoFlip) => ~ck_ok

\* ceil(n / d)
CeilDiv(n, d) == (n + d - 1) \div d

\* C12: the data packets created are numbered 1, 2, ... consecutively,
\* packet k carries the input bytes (k-1)*MAX_DATA_SIZE up to
\* min(k*MAX_DATA_SIZE, N), each has 1 <= data_len <= MAX_DATA_SIZE, and once
\* the main loop is left next_seq_num = ceil(N / MAX_DATA_SIZE) + 1, which
\* is the seq_num of the FIN.
C12_Partition ==
    LET N == Len(file_buffer)
        last == CeilDiv(N, MAX_DATA_SIZE)
    IN  /\ next_seq_num <= last + 1
        /\ bytes_sent_total = Min((next_seq_num - 1) * MAX_DATA_SIZE, N)
        /\ \A k \in 1..(next_seq_num - 1) : SentData(k) # {}
        /\ \A p \in c2s :
              p.flags = 0 =>
                /\ p.seq_num \in 1..(next_seq_num - 1)
                /\ p.data_len \in 1..MAX_DATA_SIZE
                /\ p.data_len = Len(p.data)
                /\ p.data = SubSeq(file_buffer,
                                   (p.seq_num - 1) * MAX_DATA_SIZE + 1,
                                   Min(p.seq_num * MAX_DATA_SIZE, N))
        /\ mpc \in {"set_complete", "send_fin", "join", "done"} =>
              next_seq_num = last + 1
        /\ \A p \in c2s : p.flags = FIN => p.seq_num = last + 1

\* an input of exactly two full packets has been sent and the FIN after it
C12_Witness ==
    /\ mpc = "done"
    /\ Len(file_buffer) = 2 * MAX_DATA_SIZE
    /\ next_seq_num = 3
    /\ \E p \in c2s : p.flags = FIN /\ p.seq_num = 3
    /\ \A p \in c2s : p.flags = 0 => p.data_len = MAX_DATA_SIZE

\* C13: with a zero-byte input no data packet is ever sent, next_seq_num
\* stays 1, one FIN is sent, and the main thread, the ACK thread and the
\* server all terminate.
C13_ZeroByteCompletes ==
    /\ [](/\ next_seq_num = 1
          /\ \A p \in c2s : p.flags # 0
          /\ Cardinality({p \in c2s : HasFlag(p.flags, FIN)}) <= 1)
    /\ <>[](/\ mpc = "done" /\ apc = "done" /\ rpc = "closed"
            /\ Cardinality({p \in c2s : HasFlag(p.flags, FIN)}) = 1
            /\ output_file = <<>>)

\* all three have terminated, the ACK thread having been inside recvfrom
\* when transmission_complete was set and released by the FIN-ACK
C13_Witness ==
    /\ file_buffer = <<>>
    /\ mpc = "done" /\ apc = "done" /\ rpc = "closed"
    /\ send_base = 3
    /\ next_seq_num = 1

\* C14: the fast-retransmit signal is set on entering FAST_RECOVERY, to the
\* send_base of that moment, and by no step that starts and ends in
\* FAST_RECOVERY; a pass of the main loop clears it, so that one fast
\* retransmission at most follows each entry.
C14_NoRetrigger ==
    [][/\ (state # FAST_RECOVERY /\ state' = FAST_RECOVERY) =>
            retransmit_seq_num' = send_base
       /\ (state = FAST_RECOVERY /\ state' = FAST_RECOVERY) =>
            retransmit_seq_num' \in {retransmit_seq_num, 0}
       /\ MainStep => retransmit_seq_num' = 0]_vars

\* three further duplicate ACKs have arrived in FAST_RECOVERY after the
\* fast retransmission, and the signal is still clear
C14_Witness ==
    /\ state = FAST_RECOVERY
    /\ duplicate_ack_count = 6
    /\ retransmit_seq_num = 0
    /\ send_base \in DOMAIN send_window

\* C15: over the fair lossy channel the transfer completes: the sink holds
\* the whole input, the receiver has processed a FIN and closed, the main
\* thread and the ACK thread have terminated.
C15_Completes ==
    <>(/\ output_file = file_buffer
       /\ rpc = "closed"
       /\ mpc = "done"
       /\ apc = "done")

\* C16: the receiver enters its data loop only from the second recvfrom of
\* the handshake and only when a datagram with the ACK flag has been sent
\* to it; the sender sends its first data packet only when a SYN|ACK has
\* been sent to it and it has sent the final ACK with ack_num = 1.
C16_HandshakeOrder ==
    [][/\ (rpc # "loop" /\ rpc' = "loop") =>
            /\ rpc = "recv_ack"
            /\ \E m \in c2s : HasFlag(m.flags, ACK)
       /\ (next_seq_num = 1 /\ next_seq_num' > 1) =>
            /\ \E m \in s2c : m.flags = SYN + ACK /\ m.ack_num = 1
            /\ \E a \in c2s : a.flags = ACK /\ a.ack_num = 1]_vars

\* the receiver has emitted a plain ACK that covers data packet k
AckedByReceiver(k) == \E a \in s2c : a.flags = ACK /\ a.ack_num >= k

\* the receiver's side of the close: one ACK|FIN with ack_num = FIN.seq_num
\* + 1 in answer to a FIN, and no step after it
ReceiverCloses ==
    /\ (rpc = "loop" /\ rpc' = "closed") =>
         /\ Len(r_out') = 1
         /\ r_out'[1].flags = ACK + FIN
         /\ \E f \in c2s : /\ HasFlag(f.flags, FIN)
                            /\ verify_checksum(f)
                            /\ r_out'[1].ack_num = f.seq_num + 1
         /\ s2c' = s2c \cup {r_out'[1]}
    /\ rpc = "closed" => UNCHANGED <<serverVars, s2c>>

\* C17: the FIN is sent with seq_num = next_seq_num, when the input is
\* exhausted and the receiver has emitted an ACK covering every data packet
\* sent; the receiver answers a valid FIN with one ACK|FIN, ack_num =
\* FIN.seq_num + 1, leaves the loop and processes nothing more.
C17_FinAfterAllAcked ==
    [][/\ (mpc = "send_fin" /\ mpc' = "join") =>
            /\ c2s' = c2s \cup {ControlPacket(next_seq_num, 0, FIN)}
            /\ bytes_sent_total = Len(file_buffer)
            /\ \A k \in 1..(next_seq_num - 1) : AckedByReceiver(k)
       /\ ReceiverCloses]_vars

\* C18: every control packet in flight verifies as sent, and every step
\* that advances the handshake of either side, or closes the receiver, is
\* the answer to a datagram that verifies: one that does not verify is
\* discarded.
C18_ControlChecked ==
    [][/\ \A m \in c2s' \cup s2c' : m.flags # 0 => verify_checksum(m)
       /\ (mpc = "recv_synack" /\ mpc' # mpc) =>
            \E m \in Arrivals(s2c) : verify_checksum(m) /\ Client_RecvSynAck(m)
       /\ (rpc = "recv_syn" /\ rpc' # rpc) =>
            \E m \in Arrivals(c2s) : verify_checksum(m) /\ Server_RecvSyn(m)
       /\ (rpc = "recv_ack" /\ rpc' # rpc) =>
            \E m \in Arrivals(c2s) : verify_checksum(m) /\ Server_RecvAck(m)
       /\ (rpc = "loop" /\ rpc' = "closed") =>
            \E m \in Arrivals(c2s) : verify_checksum(m) /\ Server_Fin(m)]_vars

\* a step of receive_acks that takes the branch acked_num >= send_base
NewAckStep == apc = "recv" /\ send_base' # send_base

\* C19: a new ACK (verified, ACK flag, ack_num >= send_base) sets
\* duplicate_ack_count to 0 and send_base to ack_num + 1, removes the window
\* entries with key <= ack_num and no other, leaves ssthresh alone, and
\* moves Reno: FAST_RECOVERY to CONGESTION_AVOIDANCE with cwnd = ssthresh;
\* SLOW_START to cwnd + 1, and to CONGESTION_AVOIDANCE iff that is >=
\* ssthresh; CONGESTION_AVOIDANCE to cwnd + 1/cwnd, state kept.
C19_NewAck ==
    [][NewAckStep =>
        LET ack_num == send_base' - 1
        IN  /\ ack_num >= send_base
            /\ \E m \in Arrivals(s2c) : /\ verify_checksum(m)
                                        /\ HasFlag(m.flags, ACK)
                                        /\ m.ack_num = ack_num
            /\ duplicate_ack_count' = 0
            /\ DOMAIN send_window' = {k \in DOMAIN send_window : k > ack_num}
            /\ \A k \in DOMAIN send_window' : send_window'[k] = send_window[k]
            /\ ssthresh' = ssthresh
            /\ state = FAST_RECOVERY =>
                 state' = CONGESTION_AVOIDANCE /\ cwnd' = <<ssthresh, 1>>
            /\ state = SLOW_START =>
                 /\ cwnd' = Rat(cwnd[1] + cwnd[2], cwnd[2])
                 /\ state' = IF cwnd'[1] >= ssthresh * cwnd'[2]
                             THEN CONGESTION_AVOIDANCE ELSE SLOW_START
            /\ state = CONGESTION_AVOIDANCE =>
                 /\ cwnd' = Rat(cwnd[1] * cwnd[1] + cwnd[2] * cwnd[2],
                                cwnd[1] * cwnd[2])
                 /\ state' = CONGESTION_AVOIDANCE
            /\ UNCHANGED <<mpc, next_seq_num, bytes_sent_total,
                           retransmit_seq_num, transmission_complete>>]_vars

\* a new ACK has been taken in CONGESTION_AVOIDANCE (cwnd has a fractional
\* part) and has left later packets in the window
C19_Witness ==
    /\ state = CONGESTION_AVOIDANCE
    /\ cwnd[2] > 1
    /\ duplicate_ack_count = 0
    /\ send_base > 1
    /\ DOMAIN send_window # {}
    /\ \A k \in DOMAIN send_window : k >= send_base

\* a step of receive_acks that takes the branch acked_num < send_base
DupAckStep == apc = "recv" /\ duplicate_ack_count' = duplicate_ack_count + 1

\* max(2, cwnd / 2) as a real number
HalfReal(cw) == IF cw[1] >= 4 * cw[2] THEN Rat(cw[1], 2 * cw[2]) ELSE RatInt(2)

\* what a duplicate ACK does apart from the values set on entering
\* FAST_RECOVERY
DupAckEffects ==
    /\ \E m \in s2c : /\ verify_checksum(m)
                       /\ HasFlag(m.flags, ACK)
                       /\ m.ack_num < send_base
    /\ UNCHANGED <<send_base, send_window, mpc, next_seq_num, bytes_sent_total,
                   transmission_complete>>
    /\ state = FAST_RECOVERY =>
         /\ cwnd' = Rat(cwnd[1] + cwnd[2], cwnd[2])
         /\ UNCHANGED <<state, ssthresh, retransmit_seq_num>>
    /\ (state # FAST_RECOVERY /\ duplicate_ack_count' # 3) =>
         UNCHANGED <<state, ssthresh, cwnd, retransmit_seq_num>>
    /\ (state # FAST_RECOVERY /\ duplicate_ack_count' = 3) =>
         /\ state' = FAST_RECOVERY
         /\ retransmit_seq_num' = send_base

\* C20 as claimed: a duplicate ACK (verified, ACK flag, ack_num < send_base)
\* adds 1 to duplicate_ack_count and leaves send_base and the window; in
\* FAST_RECOVERY it adds 1 to cwnd and nothing else; outside it, the third
\* one enters FAST_RECOVERY with ssthresh = max(2, cwnd / 2), cwnd =
\* ssthresh + 3 and the signal set to send_base, any other changes nothing.
C20_DupAckReal ==
    [][DupAckStep =>
        /\ DupAckEffects
        /\ (state # FAST_RECOVERY /\ duplicate_ack_count' = 3) =>
             /\ RatInt(ssthresh') = HalfReal(cwnd)
             /\ cwnd' = RatAdd(HalfReal(cwnd), RatInt(3))]_vars

\* C20 amended: the same, with ssthresh = max(2, floor(cwnd / 2)), the value
\* max(2.0, cwnd / 2.0) has when stored in the uint32_t ssthresh, and cwnd =
\* that integer + 3.
C20_DupAck ==
    [][DupAckStep =>
        /\ DupAckEffects
        /\ (state # FAST_RECOVERY /\ duplicate_ack_count' = 3) =>
             /\ ssthresh' = Floor(HalfReal(cwnd))
             /\ cwnd' = RatInt(ssthresh' + 3)]_vars

\* the third duplicate ACK has just been taken with four packets
\* acknowledged: FAST_RECOVERY, threshold 2, cwnd 5, signal set
C20_Witness ==
    /\ state = FAST_RECOVERY
    /\ duplicate_ack_count = 3
    /\ retransmit_seq_num = send_base
    /\ send_base = 5
    /\ send_base \in DOMAIN send_window
    /\ ssthresh = 2
    /\ cwnd = <<5, 1>>

\* a pass of the main loop whose timeout scan found an entry: the
\* controller is not as it was
TimeoutStep == MainStep /\ <<cwnd, ssthresh, state, duplicate_ack_count>>' #
                           <<cwnd, ssthresh, state, duplicate_ack_count>>

\* what a pass of the main loop does to the window and the channel: every
\* entry stays as it is, and a datagram sent is a packet of the window with
\* its seq_num and payload, or a newly admitted packet
EntriesResent ==
    MainStep =>
      /\ \A k \in DOMAIN send_window :
            k \in DOMAIN send_window' /\ send_window'[k] = send_window[k]
      /\ \A p \in c2s' \ c2s :
            /\ p.flags = 0
            /\ verify_checksum(p)
            /\ p.seq_num \in DOMAIN send_window'
            /\ p.data = send_window'[p.seq_num].data
            /\ p.data_len = send_window'[p.seq_num].data_len

FastTarget ==
    retransmit_seq_num > 0 /\ retransmit_seq_num \in DOMAIN send_window

\* C22: a pass of the main loop clears the fast-retransmit signal; if the
\* signal named an entry of the window, that entry is sent again, no other
\* is, and the controller sees no timeout; new packets are admitted
\* against the cwnd the retransmissions of the pass have left, until the
\* window test fails or the input is exhausted.
C22_StepOrder ==
    [][MainStep =>
        /\ retransmit_seq_num' = 0
        /\ FastTarget =>
             /\ UNCHANGED <<cwnd, ssthresh, state, duplicate_ack_count>>
             /\ Resent(send_window, {retransmit_seq_num}, adjacent.node)
                   \subseteq c2s'
             /\ \A p \in c2s' \ c2s :
                   p.seq_num < next_seq_num => p.seq_num = retransmit_seq_num
        /\ WindowSize' - WindowSize = next_seq_num' - next_seq_num
        /\ next_seq_num' > next_seq_num =>
             /\ WindowSize' - 1 < FLOW_CONTROL_WINDOW_SIZE
             /\ IntLess(WindowSize' - 1, cwnd')
        /\ bytes_sent_total' < Len(file_buffer) =>
             ~(WindowSize' < FLOW_CONTROL_WINDOW_SIZE
               /\ IntLess(WindowSize', cwnd'))]_vars

\* the pass after the third duplicate ACK has sent send_base again, from
\* its window entry, and cleared the signal
C22_Witness ==
    /\ mpc = "loop_cond"
    /\ state = FAST_RECOVERY
    /\ duplicate_ack_count = 3
    /\ retransmit_seq_num = 0
    /\ send_base \in DOMAIN send_window
    /\ Resent(send_window, {send_base}, adjacent.node) \subseteq c2s
    /\ send_window[send_base] \notin Resent(send_window, {send_base},
                                              adjacent.node)

\* what the receive loop can change: its position, the delivery state and
\* the datagrams it has sent
LoopState == <<rpc, expected_seq_num, receive_buffer, output_file, s2c>>

\* C23: a pass of the receive loop over a datagram that fails
\* verify_checksum changes nothing and sends nothing, FIN flag or not:
\* the pass recorded as corrupt leaves the loop's state alone, every pass
\* that changes it is the answer to a datagram that verifies, and the
\* receiver closes only on a FIN the sender has sent.
C23_CorruptDiscarded ==
    [][rpc = "loop" =>
        /\ r_last' = "corrupt" =>
             /\ LoopState' = LoopState
             /\ r_out' = <<>>
             /\ \E m \in Arrivals(c2s) : ~verify_checksum(m)
        /\ LoopState' # LoopState =>
             \E m \in Arrivals(c2s) :
                 verify_checksum(m) /\ (Server_Fin(m) \/ Server_Data(m))
        /\ rpc' = "closed" =>
             \E f \in c2s : HasFlag(f.flags, FIN)]_vars

\* a datagram that failed the checksum has just been dropped in mid
\* transfer, while copies with the FIN bit inverted were in flight and no
\* FIN had been sent
C23_Witness ==
    /\ rpc = "loop"
    /\ r_last = "corrupt"
    /\ r_out = <<>>
    /\ expected_seq_num > 1
    /\ \A p \in c2s : ~HasFlag(p.flags, FIN)
    /\ \E m \in Arrivals(c2s) : HasFlag(m.flags, FIN) /\ ~verify_checksum(m)

\* the sender's state shared by its two threads
SharedState ==
    <<send_window, send_base, next_seq_num, cwnd, ssthresh, state,
      duplicate_ack_count, retransmit_seq_num>>

\* positions of the main thread and of receive_acks inside their sections
MainHolds == {"drain", "scan", "admit", "wait", "unlock"}

AckHolds == {"test", "erase", "reno", "unlock"}

\* C24: the shared state of the sender changes only in a statement of the
\* thread that holds window_mutex; the mutex is held by the main thread
\* exactly inside its loop body and by receive_acks exactly inside its ACK
\* block, never by both, so that no statement of a pass of the main loop
\* (drain of the signal, retransmission, admission) runs between two
\* statements of one ACK, and no statement of an ACK runs inside a pass.
C24_MutexAtomic ==
    [][/\ SharedState' # SharedState =>
            /\ window_mutex # "free"
            /\ window_mutex = "main" => apc' = apc /\ mpc \in MainHolds
            /\ window_mutex = "ack" => mpc' = mpc /\ apc \in AckHolds
       /\ (window_mutex' = "main") = (mpc' \in MainHolds)
       /\ (window_mutex' = "ack") = (apc' \in AckHolds)
       /\ ~(mpc' \in MainHolds /\ apc' \in AckHolds)
       /\ (mpc \in {"drain", "scan", "admit"} /\ apc' # apc) =>
            (apc \notin AckHolds /\ apc' \notin AckHolds)]_vars

\* receive_acks holds the mutex with half of an ACK applied (send_base
\* moved, the entry not yet erased) while the main thread waits to enter
\* its loop body
C24_Witness ==
    /\ window_mutex = "ack"
    /\ apc = "erase"
    /\ mpc = "step"
    /\ send_base - 1 \in DOMAIN send_window

\* C25: once transmission_complete is set and the send window is empty,
\* receive_acks terminates, whatever the channel delivers from then on.
C25_AckTaskEnds ==
    (transmission_complete /\ DOMAIN send_window = {}) ~> (apc = "done")

\* C26: while the transfer is in progress the sender's send_base is at most
\* the receiver's expected_seq_num, and a data packet that has left the
\* send window has been written to the sink.
C26_BaseBehindReceiver ==
    ~transmission_complete =>
      /\ send_base <= expected_seq_num
      /\ \A k \in 1..(next_seq_num - 1) :
           k \notin DOMAIN send_window => k < expected_seq_num

\* C27: when the receiver has processed a FIN and closed, its receive
\* buffer is empty and expected_seq_num is the seq_num of the FIN.
C27_ClosedMeansDelivered ==
    rpc = "closed" =>
      /\ DOMAIN receive_buffer = {}
      /\ \A f \in c2s : HasFlag(f.flags, FIN) => expected_seq_num = f.seq_num

====
